---- MODULE Spec2Model ----
(***************************************************************************)
(* Medication reminder application (medication_reminder_app.py).           *)
(*                                                                         *)
(* State: the three SQLite tables (Customers, DoseLogs, NotificationLogs), *)
(* the wall-clock date, the add_customer requests that are between their   *)
(* duplicate-name SELECT and their INSERT, and the check_and_notify        *)
(* threads (the scheduler's job and the thread run_checks_now starts).     *)
(*                                                                         *)
(* Dates are stored by the program as text; they are modelled as           *)
(* sequences of one-character strings, parsed as datetime.strptime parses  *)
(* them and ordered as SQLite orders text.  A date value is the number of  *)
(* days since 2024-01-01; the calendar modelled is the year 2024.          *)
(***************************************************************************)
EXTENDS Integers, Sequences, FiniteSets, Bags, TLC

\* ------------------------------------------------------------------ bounds
MaxCustomers == 2
MaxDoseLogs == 2
MaxDays == 1

\* ------------------------------------------------------- text and calendar
Digits == <<"0", "1", "2", "3", "4", "5", "6", "7", "8", "9">>

Digit(k) == Digits[k + 1]

IsDigit(c) == \E k \in 0..9 : Digit(k) = c

DigitVal(c) == CHOOSE k \in 0..9 : Digit(k) = c

\* Byte order of the characters that occur: ' ' < '-' < '0'..'9' < 'A' < 'B' < 'a'..
Ord(c) ==
    CASE c = " " -> 32
      [] c = "-" -> 45
      [] IsDigit(c) -> 48 + DigitVal(c)
      [] c = "A" -> 65
      [] c = "B" -> 66
      [] c = "a" -> 97
      [] c = "b" -> 98
      [] c = "d" -> 100

\* SQLite's BINARY collation on TEXT (memcmp, a proper prefix sorts first).
TextLess(a, b) ==
    \/ Len(a) < Len(b) /\ \A k \in 1..Len(a) : a[k] = b[k]
    \/ \E k \in 1..Len(a) :
          /\ k <= Len(b)
          /\ \A j \in 1..(k - 1) : a[j] = b[j]
          /\ Ord(a[k]) < Ord(b[k])

MonthDays == <<31, 29, 31, 30, 31, 30, 31, 31, 30, 31, 30, 31>>

RECURSIVE DaysBefore(_)
DaysBefore(m) == IF m = 1 THEN 0 ELSE DaysBefore(m - 1) + MonthDays[m - 1]

MonthOf(n) ==
    CHOOSE m \in 1..12 : DaysBefore(m) <= n /\ n < DaysBefore(m) + MonthDays[m]

DayOf(n) == n - DaysBefore(MonthOf(n)) + 1

TwoDigits(k) == <<Digit(k \div 10), Digit(k % 10)>>

\* date.isoformat(): always zero-padded YYYY-MM-DD.
isoformat(n) ==
    <<"2", "0", "2", "4", "-">> \o TwoDigits(MonthOf(n)) \o <<"-">> \o TwoDigits(DayOf(n))

\* One %m or %d field of strptime: one or two digits, value 1..max.
FieldOk(t, max) ==
    /\ Len(t) \in {1, 2}
    /\ \A k \in 1..Len(t) : IsDigit(t[k])
    /\ LET v == IF Len(t) = 1 THEN DigitVal(t[1])
                ELSE 10 * DigitVal(t[1]) + DigitVal(t[2])
       IN v \in 1..max

FieldVal(t) ==
    IF Len(t) = 1 THEN DigitVal(t[1]) ELSE 10 * DigitVal(t[1]) + DigitVal(t[2])

\* The position of the second '-' of a string that strptime("%Y-%m-%d") accepts.
SecondDash(s) ==
    {p \in 7..(Len(s) - 1) :
        /\ SubSeq(s, 1, 5) = <<"2", "0", "2", "4", "-">>
        /\ s[p] = "-"
        /\ FieldOk(SubSeq(s, 6, p - 1), 12)
        /\ FieldOk(SubSeq(s, p + 1, Len(s)), 31)
        /\ FieldVal(SubSeq(s, p + 1, Len(s))) <= MonthDays[FieldVal(SubSeq(s, 6, p - 1))]}

\* Whether datetime.strptime(s, "%Y-%m-%d") returns (TRUE) or raises ValueError.
strptime_ok(s) == SecondDash(s) # {}

\* The date datetime.strptime(s, "%Y-%m-%d").date() returns.
strptime(s) ==
    LET p == CHOOSE q \in SecondDash(s) : TRUE
    IN DaysBefore(FieldVal(SubSeq(s, 6, p - 1))) + FieldVal(SubSeq(s, p + 1, Len(s))) - 1

\* str.strip() on the characters that occur.
RECURSIVE lstrip(_)
lstrip(s) == IF s # <<>> /\ Head(s) = " " THEN lstrip(Tail(s)) ELSE s

RECURSIVE rstrip(_)
rstrip(s) ==
    IF s # <<>> /\ s[Len(s)] = " " THEN rstrip(SubSeq(s, 1, Len(s) - 1)) ELSE s

strip(s) == rstrip(lstrip(s))

\* ------------------------------------------------------------ form inputs
NameA == <<"A">>

NameB == <<"B">>

Blank == <<" ">>

\* "2024-1-1": strptime accepts it; as text it sorts after every "2024-0...".
Jan1 == <<"2", "0", "2", "4", "-", "1", "-", "1">>

Jan8 == <<"2", "0", "2", "4", "-", "0", "1", "-", "0", "8">>

NotADate == <<"b", "a", "d">>

\* The form fields of Spec (threads and requests overlap).
NameInputs == {NameA, NameB}

DateInputs == {Jan1}

WeekInputs == {1}

ExtraInputs == {0}

\* The form fields of SpecSerial (one check_and_notify thread at a time).
SerialNames == {NameA}

SerialDates == {Jan1, Jan8, NotADate}

\* The form fields of SpecRoster (rosters of two customers, the active flag toggled).
RosterDates == {Jan1, NotADate}

\* The form fields of SpecDose (dose histories).
DoseDates == {Jan1, Jan8}

DoseWeeks == {0, 1}

DoseExtras == {0, 1}

Runs == {"cron", "manual"}

\* The date on which the application is started.
FirstDay == Jan8

\* ------------------------------------------------------------------ state
VARIABLES Customers, DoseLogs, NotificationLogs, today, pendingAdd, run, emails, event, ended

vars == <<Customers, DoseLogs, NotificationLogs, today, pendingAdd, run, emails, event, ended>>

NoDate == -1

IdleRun == [pc |-> "idle", today |-> NoDate, roster |-> <<>>, evaluated |-> <<>>,
            next_date |-> NoDate]

NoEvent == [kind |-> "none"]

Init ==
    /\ Customers = <<>>
    /\ DoseLogs = EmptyBag
    /\ NotificationLogs = EmptyBag
    /\ today = strptime(FirstDay)
    /\ pendingAdd = [n \in NameInputs |-> 0]
    /\ run = [r \in Runs |-> IdleRun]
    /\ emails = EmptyBag
    /\ event = NoEvent
    /\ ended = "no"

\* ------------------------------------------------------------- SQL helpers
RECURSIVE SumPending(_, _)
SumPending(f, S) ==
    IF S = {} THEN 0
    ELSE LET n == CHOOSE x \in S : TRUE IN f[n] + SumPending(f, S \ {n})

\* add_customer requests that passed the duplicate-name SELECT and have not inserted yet.
PendingTotal == SumPending(pendingAdd, NameInputs)

\* SELECT id FROM Customers WHERE name = ?
ExistingCustomer(name) == \E k \in 1..Len(Customers) : Customers[k].name = name

\* SELECT id, name, contact, start_date FROM Customers (every row, in rowid order).
SelectCustomers == [k \in 1..Len(Customers) |-> k]

\* The rows of DoseLogs of one customer.
LogsOf(cid) == {l \in BagToSet(DoseLogs) : l.customer_id = cid}

\* SELECT ... FROM DoseLogs WHERE customer_id=? ORDER BY taken_date DESC LIMIT 1:
\* the rows that may come first (SQL leaves the order of equal taken_date open).
LastDoseLogs(cid) ==
    {l \in LogsOf(cid) : \A o \in LogsOf(cid) : ~TextLess(l.taken_date, o.taken_date)}

\* A faulty look-up: made with today's date in place of the due date.
AlreadyNotifiedToday(t) == BagIn([t EXCEPT !.notify_date = isoformat(today)], NotificationLogs)

\* SELECT 1 FROM NotificationLogs WHERE customer_id=? AND notify_type=? AND notify_date=?
AlreadyNotified(t) == BagIn(t, NotificationLogs)

\* ------------------------------------------------------- check_and_notify
notify_days == <<7, 0>>

\* f"D-{nd}" if nd != 0 else "D-0"
NotifyType(nd) == IF nd # 0 THEN <<"D-", nd>> ELSE <<"D-", 0>>

\* int(last[1]) if last[1] else 4
TakenWeekOrDefault(w) == IF w # 0 THEN w ELSE 4

\* last_taken + timedelta(weeks=taken_week)
AddWeeks(d, w) == d + 7 * w

\* Whether a message leaves: lines 76-78 are reached and raise nothing.
Delivered(has_credentials, has_recipient, smtp_ok) ==
    has_credentials /\ has_recipient /\ smtp_ok

\* A faulty send_email_smtp: the SMTP session's exception is swallowed and True returned.
send_email_smtp_swallow(has_credentials, has_recipient, smtp_ok) ==
    IF ~has_credentials THEN FALSE
    ELSE IF ~has_recipient THEN FALSE
    ELSE TRUE

\* send_email_smtp's result: credentials set, recipient not empty, SMTP session succeeded.
send_email_smtp(has_credentials, has_recipient, smtp_ok) ==
    IF ~has_credentials THEN FALSE
    ELSE IF ~has_recipient THEN FALSE
    ELSE smtp_ok

\* The customer the thread is at: the row its for loop takes next.
CurrentCustomer(rec) == rec.roster[Len(rec.evaluated) + 1]

\* The customer whose loop body the thread is in.
LoopCustomer(rec) == rec.evaluated[Len(rec.evaluated)]

\* The row check_and_notify looks up, and inserts after a successful send.
NotifyRow(cid, next_date, d_day) ==
    [customer_id |-> cid, notify_type |-> NotifyType(d_day), notify_date |-> isoformat(next_date)]

\* The end of one iteration of "for cust in customers"; after the last one the
\* function returns and the thread ends.
NextCustomer(rec) ==
    IF Len(rec.evaluated) < Len(rec.roster)
    THEN [rec EXCEPT !.pc = "loop", !.next_date = NoDate]
    ELSE IdleRun

\* How the step that takes a thread to next ends it, if it does: "done" is
\* check_and_notify returning.
Ending(next) == IF next.pc = "idle" THEN "done" ELSE "no"

\* today = datetime.today().date(); SELECT ... FROM Customers; fetchall()
StartRun(r) ==
    /\ run[r].pc = "idle"
    /\ LET rec == [pc |-> "idle", today |-> today, roster |-> SelectCustomers,
                   evaluated |-> <<>>, next_date |-> NoDate]
       IN /\ run' = [run EXCEPT ![r] = NextCustomer(rec)]
          /\ ended' = Ending(NextCustomer(rec))
    /\ event' = NoEvent
    /\ UNCHANGED <<Customers, DoseLogs, NotificationLogs, today, pendingAdd, emails>>

\* scheduler.add_job(check_and_notify, 'cron', hour=9, minute=0): one instance at a time.
SchedulerJob == StartRun("cron")

\* /run_checks_now: Thread(target=check_and_notify).start()
run_checks_now == StartRun("manual")

\* c.fetchone() of that SELECT: one of the rows that may come first, or None.
NoLog == [none |-> TRUE]

FetchLast(cid) == IF LogsOf(cid) = {} THEN {NoLog} ELSE LastDoseLogs(cid)

\* A date computation's result: <<ok, date>>, ok FALSE where strptime raises.
Raised == <<FALSE, NoDate>>

\* check_and_notify, lines 109-116: next_date from the fetched row, or from start_date.
check_next_date(start_date, last) ==
    IF last # NoLog
    THEN IF strptime_ok(last.taken_date)
         THEN <<TRUE, AddWeeks(strptime(last.taken_date), TakenWeekOrDefault(last.taken_week))>>
         ELSE Raised
    ELSE IF strptime_ok(start_date)
         THEN <<TRUE, AddWeeks(strptime(start_date), 4)>>
         ELSE Raised

\* index, lines 173-184: taken_week = int(last_log[1]), with no default.
index_next_date(start_date, last) ==
    IF last # NoLog
    THEN IF strptime_ok(last.taken_date)
         THEN <<TRUE, AddWeeks(strptime(last.taken_date), last.taken_week)>>
         ELSE Raised
    ELSE IF strptime_ok(start_date)
         THEN <<TRUE, AddWeeks(strptime(start_date), 4)>>
         ELSE Raised

\* view_customer, lines 251-258: logs[0] of the same ORDER BY, taken_week or 4.
view_next_date(start_date, last) ==
    IF last # NoLog
    THEN IF strptime_ok(last.taken_date)
         THEN <<TRUE, AddWeeks(strptime(last.taken_date),
                               IF last.taken_week # 0 THEN last.taken_week ELSE 4)>>
         ELSE Raised
    ELSE IF strptime_ok(start_date)
         THEN <<TRUE, AddWeeks(strptime(start_date), 4)>>
         ELSE Raised

\* d_day = (next_date - today).days
DDay(next_date, day) == next_date - day

\* The customers index lists: SELECT * FROM Customers WHERE is_active=1
IndexCustomers == {k \in 1..Len(Customers) : Customers[k].is_active = 1}

\* Whether the notify_days loop reaches send_email_smtp for this customer.
ShouldSend(cid, next_date, d_day) ==
    /\ \E k \in 1..Len(notify_days) : notify_days[k] = d_day
    /\ ~AlreadyNotified(NotifyRow(cid, next_date, d_day))

\* Lines 104-136, one customer: the last dose log is fetched, next_date and d_day are
\* computed (a ValueError of strptime ends the thread), and the notify_days loop runs
\* up to the result of send_email_smtp.  The two SELECTs are one step: a write to
\* DoseLogs between them is not seen by the second, a write to NotificationLogs
\* between them is not seen by the first, so each interleaving equals one in which the
\* write comes after, respectively before, this step.
check_and_notify_customer(r) ==
    /\ run[r].pc = "loop"
    /\ LET rec == run[r]
           cid == CurrentCustomer(rec)
           seen == [rec EXCEPT !.evaluated = Append(rec.evaluated, cid)]
       IN \E last \in FetchLast(cid) :
             LET res == check_next_date(Customers[cid].start_date, last) IN
             IF ~res[1]
             THEN /\ run' = [run EXCEPT ![r] = IdleRun]
                  /\ ended' = "raised"
                  /\ event' = NoEvent
                  /\ UNCHANGED emails
             ELSE LET next_date == res[2]
                      d_day == DDay(next_date, rec.today)
                      t == NotifyRow(cid, next_date, d_day)
                  IN IF ~ShouldSend(cid, next_date, d_day)
                     THEN /\ run' = [run EXCEPT ![r] = NextCustomer(seen)]
                          /\ ended' = Ending(NextCustomer(seen))
                          /\ event' = [kind |-> "eval", customer_id |-> cid, next_date |-> next_date,
                                       d_day |-> d_day,
                                       send |-> "none"]
                          /\ UNCHANGED emails
                     ELSE \E has_credentials \in BOOLEAN, has_recipient \in BOOLEAN,
                             smtp_ok \in BOOLEAN :
                             LET sent == send_email_smtp(has_credentials, has_recipient, smtp_ok)
                                 delivered == Delivered(has_credentials, has_recipient, smtp_ok)
                                 next == IF sent
                                         THEN [seen EXCEPT !.pc = "insert",
                                                           !.next_date = next_date]
                                         ELSE NextCustomer(seen)
                             IN /\ emails' = IF delivered THEN emails (+) SetToBag({t}) ELSE emails
                                /\ event' = [kind |-> "eval", customer_id |-> cid, next_date |-> next_date,
                                       d_day |-> d_day,
                                             send |-> IF sent THEN "sent" ELSE "failed"]
                                /\ run' = [run EXCEPT ![r] = next]
                                /\ ended' = Ending(next)
    /\ UNCHANGED <<Customers, DoseLogs, NotificationLogs, today, pendingAdd>>

\* Lines 136-139: if sent: INSERT INTO NotificationLogs; conn.commit()
check_and_notify_insert(r) ==
    /\ run[r].pc = "insert"
    /\ LET rec == run[r]
       IN /\ NotificationLogs' = NotificationLogs (+)
                SetToBag({NotifyRow(LoopCustomer(rec), rec.next_date,
                                    DDay(rec.next_date, rec.today))})
          /\ run' = [run EXCEPT ![r] = NextCustomer(rec)]
          /\ ended' = Ending(NextCustomer(rec))
    /\ event' = NoEvent
    /\ UNCHANGED <<Customers, DoseLogs, today, pendingAdd, emails>>

\* ---------------------------------------------------------- web operations
\* add_customer, lines 199-216: the form is read and the name looked up.
add_customer_check(name) ==
    /\ IF ExistingCustomer(name)
       THEN UNCHANGED pendingAdd
       ELSE /\ Len(Customers) + PendingTotal < MaxCustomers
            /\ BagCardinality(DoseLogs) + PendingTotal < MaxDoseLogs
            /\ pendingAdd' = [pendingAdd EXCEPT ![name] = @ + 1]
    /\ event' = NoEvent
    /\ ended' = "no"
    /\ UNCHANGED <<Customers, DoseLogs, NotificationLogs, today, run, emails>>

\* add_customer, lines 218-223: the customer and its first dose log are inserted.
add_customer_insert(name, start_date, first_weeks) ==
    /\ pendingAdd[name] > 0
    /\ pendingAdd' = [pendingAdd EXCEPT ![name] = @ - 1]
    /\ Customers' = Append(Customers,
                           [name |-> name, start_date |-> start_date, is_active |-> 1])
    /\ DoseLogs' = DoseLogs (+) SetToBag({[customer_id |-> Len(Customers) + 1,
                                           taken_date |-> start_date,
                                           taken_week |-> first_weeks,
                                           extra_weeks |-> 0]})
    /\ event' = NoEvent
    /\ ended' = "no"
    /\ UNCHANGED <<NotificationLogs, today, run, emails>>

\* add_dose_log: a row is inserted for the customer the URL names (here always an
\* existing one; the code does not look the customer up).
add_dose_log(customer_id, taken_date, taken_week) ==
    /\ customer_id \in 1..Len(Customers)
    /\ BagCardinality(DoseLogs) + PendingTotal < MaxDoseLogs
    /\ DoseLogs' = DoseLogs (+) SetToBag({[customer_id |-> customer_id,
                                           taken_date |-> taken_date,
                                           taken_week |-> taken_week,
                                           extra_weeks |-> 0]})
    /\ event' = NoEvent
    /\ ended' = "no"
    /\ UNCHANGED <<Customers, NotificationLogs, today, pendingAdd, run, emails>>

\* edit_customer (POST): a blank name is refused, any other name is stored.
edit_customer(customer_id, name) ==
    /\ customer_id \in 1..Len(Customers)
    /\ LET new_name == strip(name)
       IN IF new_name = <<>>
          THEN UNCHANGED Customers
          ELSE Customers' = [Customers EXCEPT ![customer_id].name = new_name]
    /\ event' = NoEvent
    /\ ended' = "no"
    /\ UNCHANGED <<DoseLogs, NotificationLogs, today, pendingAdd, run, emails>>

\* manage_customers (POST): is_active becomes 1 for the checked ids and 0 for the others.
manage_customers(active_ids) ==
    /\ Customers' = [k \in 1..Len(Customers) |->
                        [Customers[k] EXCEPT !.is_active = IF k \in active_ids THEN 1 ELSE 0]]
    /\ event' = NoEvent
    /\ ended' = "no"
    /\ UNCHANGED <<DoseLogs, NotificationLogs, today, pendingAdd, run, emails>>

\* edit_dose_log (POST): UPDATE DoseLogs SET taken_date, taken_week, extra_weeks WHERE id=?
edit_dose_log(log, taken_date, taken_week, extra_weeks) ==
    /\ BagIn(log, DoseLogs)
    /\ DoseLogs' = (DoseLogs (-) SetToBag({log}))
                      (+) SetToBag({[log EXCEPT !.taken_date = taken_date,
                                                !.taken_week = taken_week,
                                                !.extra_weeks = extra_weeks]})
    /\ event' = NoEvent
    /\ ended' = "no"
    /\ UNCHANGED <<Customers, NotificationLogs, today, pendingAdd, run, emails>>

\* delete_dose_log: DELETE FROM DoseLogs WHERE id=?
delete_dose_log(log) ==
    /\ BagIn(log, DoseLogs)
    /\ DoseLogs' = DoseLogs (-) SetToBag({log})
    /\ event' = NoEvent
    /\ ended' = "no"
    /\ UNCHANGED <<Customers, NotificationLogs, today, pendingAdd, run, emails>>

\* Midnight passes: datetime.today().date() is one day later.
Tick ==
    /\ today < strptime(FirstDay) + MaxDays
    /\ today' = today + 1
    /\ event' = NoEvent
    /\ ended' = "no"
    /\ UNCHANGED <<Customers, DoseLogs, NotificationLogs, pendingAdd, run, emails>>

\* ------------------------------------------------------------ specification
\* The web requests that write customers and dose logs, with their form fields
\* drawn from the given sets.
WebStep(Names, Dates, Weeks, Extras) ==
    \/ \E name \in Names : add_customer_check(name)
    \/ \E name \in Names, d \in Dates, w \in Weeks : add_customer_insert(name, d, w)
    \/ \E cid \in 1..MaxCustomers, d \in Dates, w \in Weeks : add_dose_log(cid, d, w)
    \/ \E cid \in 1..MaxCustomers, name \in Names \cup {Blank} : edit_customer(cid, name)
    \/ \E log \in BagToSet(DoseLogs), d \in Dates, w \in Weeks, e \in Extras :
          edit_dose_log(log, d, w, e)
    \/ \E log \in BagToSet(DoseLogs) : delete_dose_log(log)

\* The manage_customers form: any set of checked boxes.
ManageStep == \E ids \in SUBSET (1..Len(Customers)) : manage_customers(ids)

\* The steps of the check_and_notify threads.
RunStep(R) ==
    \/ \E r \in R : check_and_notify_customer(r)
    \/ \E r \in R : check_and_notify_insert(r)

Next ==
    \/ WebStep(NameInputs, DateInputs, WeekInputs, ExtraInputs)
    \/ ManageStep
    \/ RunStep(Runs)
    \/ SchedulerJob
    \/ run_checks_now
    \/ Tick

Spec == Init /\ [][Next]_vars

\* Evaluation runs that never overlap: a thread starts only when none is running.
NoRunActive == \A r \in Runs : run[r].pc = "idle"

NextSerial ==
    \/ WebStep(SerialNames, SerialDates, WeekInputs, ExtraInputs)
    \/ RunStep(Runs)
    \/ NoRunActive /\ SchedulerJob
    \/ NoRunActive /\ run_checks_now
    \/ Tick

SpecSerial == Init /\ [][NextSerial]_vars

\* Runs that never overlap, over rosters whose active flags are toggled.
NextRoster ==
    \/ WebStep(NameInputs, RosterDates, WeekInputs, ExtraInputs)
    \/ ManageStep
    \/ RunStep(Runs)
    \/ NoRunActive /\ SchedulerJob
    \/ NoRunActive /\ run_checks_now
    \/ Tick

SpecRoster == Init /\ [][NextRoster]_vars

\* Dose histories of every shape, evaluated by the scheduler's job.
NextDose ==
    \/ WebStep(SerialNames, DoseDates, DoseWeeks, DoseExtras)
    \/ RunStep({"cron"})
    \/ SchedulerJob

SpecDose == Init /\ [][NextDose]_vars

\* ------------------------------------------------------------------ claims
\* The thread r takes a step of its customer loop.
EvalStep(r) == run[r].pc = "loop" /\ run'[r] # run[r]

\* The NotificationLogs row of the evaluation the last step made.
EventRow(e) == NotifyRow(e.customer_id, e.next_date, e.d_day)

\* C1: NotificationLogs holds at most one row per (customer_id, notify_type,
\* notify_date), and at most one email is sent per such triple, also when the manual
\* trigger's thread overlaps the scheduler's.
C1_AtMostOneRowAndEmail ==
    \A t \in BagToSet(NotificationLogs) \cup BagToSet(emails) :
        CopiesIn(t, NotificationLogs) <= 1 /\ CopiesIn(t, emails) <= 1

\* C2: when evaluation runs never overlap, at most one email is ever sent for a
\* (customer, milestone, due date), over runs on the same and on later days and
\* with dose logs added, edited and deleted in between.
C2_AtMostOneSend == \A t \in BagToSet(emails) : CopiesIn(t, emails) <= 1

\* A run found the milestone due, its email sent before, and sent nothing.
C2_Suppressed ==
    /\ event.kind = "eval"
    /\ event.send = "none"
    /\ event.d_day \in {7, 0}
    /\ CopiesIn(EventRow(event), emails) = 1
    /\ BagIn(EventRow(event), NotificationLogs)

\* C3, state part: a row of NotificationLogs stands for an email that left, and after
\* a failed send there is no row for its triple.
C3_RowOnlyAfterSend ==
    /\ \A t \in BagToSet(NotificationLogs) : CopiesIn(t, NotificationLogs) <= CopiesIn(t, emails)
    /\ event.kind = "eval" /\ event.send = "failed" => ~BagIn(EventRow(event), NotificationLogs)

\* C3, step part: a failed send writes nothing and raises nothing, the thread goes on
\* to the next customer (or returns after the last); and a run that finds the
\* milestone due and no row attempts the send, whatever failed before.
C3_FailedSendStep ==
    \A r \in Runs :
        EvalStep(r) /\ event'.kind = "eval" =>
            /\ event'.send = "failed" =>
                  /\ NotificationLogs' = NotificationLogs
                  /\ emails' = emails
                  /\ ended' # "raised"
                  /\ IF Len(run[r].evaluated) + 1 < Len(run[r].roster)
                     THEN /\ run'[r].pc = "loop"
                          /\ run'[r].roster = run[r].roster
                          /\ Len(run'[r].evaluated) = Len(run[r].evaluated) + 1
                     ELSE run'[r].pc = "idle" /\ ended' = "done"
            /\ event'.d_day \in {7, 0} /\ ~BagIn(EventRow(event'), NotificationLogs)
                  => event'.send \in {"sent", "failed"}

\* C3: a NotificationLogs row is inserted only after send_email_smtp returned True;
\* a failed send writes no row, does not end the run, and is attempted again by the
\* next run that finds the milestone due.
C3_NoRowOnFailure == []C3_RowOnlyAfterSend /\ [][C3_FailedSendStep]_vars

\* A send failed and the thread went on to its next customer.
C3_FailedAndContinued ==
    /\ event.kind = "eval"
    /\ event.send = "failed"
    /\ \E r \in Runs : run[r].pc = "loop" /\ event.customer_id = LoopCustomer(run[r])

\* C5, one evaluation: the D-day is the due date computed from the customer's last
\* dose log minus the run's date, and the send is attempted if and only if the D-day
\* is 7 or 0 and NotificationLogs has no row for the triple.
C5_EvalStep ==
    \A r \in Runs :
        EvalStep(r) /\ event'.kind = "eval" =>
            /\ event'.customer_id = CurrentCustomer(run[r])
            /\ \E last \in FetchLast(event'.customer_id) :
                  check_next_date(Customers[event'.customer_id].start_date, last)
                      = <<TRUE, event'.next_date>>
            /\ event'.d_day = event'.next_date - run[r].today
            /\ (event'.send # "none") <=>
                  (event'.d_day \in {7, 0} /\ ~BagIn(EventRow(event'), NotificationLogs))

\* Whether, on the given day, the customer's milestone is due and NotificationLogs has
\* no row for it, whichever row the SELECT of the last dose log returns.
DueAndUnsent(cid, day) ==
    \A last \in FetchLast(cid) :
        LET res == check_next_date(Customers[cid].start_date, last)
        IN /\ res[1]
           /\ DDay(res[2], day) \in {7, 0}
           /\ ~BagIn(NotifyRow(cid, res[2], DDay(res[2], day)), NotificationLogs)

\* C5, the run as a whole: when the thread ends, no customer of its roster that it did
\* not reach has a milestone due and unsent on the run's date.
C5_NoCustomerSkipped ==
    \A r \in Runs :
        run[r].pc = "loop" /\ run'[r].pc = "idle" =>
            \A k \in (Len(run[r].evaluated) + 2)..Len(run[r].roster) :
                ~DueAndUnsent(run[r].roster[k], run[r].today)

\* C5: within a run a send is attempted for a customer exactly when its D-day on
\* the run's date is 7 or 0 and no row exists for the triple: no send on any other
\* day, no catching up of a milestone whose day passed, and a send for every customer
\* of the roster whose milestone is due and unsent.
C5_SendIffDueAndUnsent ==
    [](event.kind = "eval" /\ event.send # "none" => event.d_day \in {7, 0})
        /\ [][C5_EvalStep /\ C5_NoCustomerSkipped]_vars

\* A run one day after the due date: the D-0 email was never sent and is not sent now.
C5_MissedDay ==
    /\ event.kind = "eval"
    /\ event.d_day = -1
    /\ event.send = "none"
    /\ ~BagIn(NotifyRow(event.customer_id, event.next_date, 0), emails)

\* C6: no two rows of Customers, active or not, have the same name.
C6_UniqueNames ==
    \A i \in 1..Len(Customers), j \in 1..Len(Customers) :
        i # j => Customers[i].name # Customers[j].name

\* C7: every stored start_date and taken_date is a well-formed date and every
\* taken_week an integer, so no check_and_notify run is ended by an exception.
C7_StoredDatesWellFormed ==
    /\ \A k \in 1..Len(Customers) : strptime_ok(Customers[k].start_date)
    /\ \A l \in BagToSet(DoseLogs) : strptime_ok(l.taken_date) /\ l.taken_week \in Int
    /\ ended # "raised"

\* The due dates of the reference: the latest taken-date plus interval-in-weeks x 7
\* days of a record with the latest taken-date, or enrollment date plus 28 days.
ReferenceDueDates(cid) ==
    IF LogsOf(cid) = {}
    THEN {strptime(Customers[cid].start_date) + 28}
    ELSE {strptime(l.taken_date) + 7 * l.taken_week :
             l \in {m \in LogsOf(cid) :
                      \A o \in LogsOf(cid) : strptime(o.taken_date) <= strptime(m.taken_date)}}

\* C4: the due date check_and_notify computes for a customer is the reference's:
\* latest taken-date + interval-in-weeks x 7 days (also for an interval of 0), or
\* enrollment date + 28 days without dose records.
C4_DueDateIsReference ==
    event.kind = "eval" => event.next_date \in ReferenceDueDates(event.customer_id)

\* C8: where the latest dose record carries an extra-weeks adjustment, the due date
\* of check_and_notify, index and view_customer is taken-date + (interval-in-weeks +
\* extra-weeks) x 7 days.
C8_ExtraWeeksFolded ==
    \A cid \in 1..Len(Customers) :
        \A l \in LastDoseLogs(cid) :
            l.extra_weeks # 0 =>
                LET due == <<TRUE, strptime(l.taken_date) + 7 * (l.taken_week + l.extra_weeks)>>
                    start == Customers[cid].start_date
                IN /\ check_next_date(start, l) = due
                   /\ index_next_date(start, l) = due
                   /\ view_next_date(start, l) = due

\* C9: for every customer index lists, and whichever row the SELECT returns, index,
\* view_customer and check_and_notify compute the same due date and the same D-day.
C9_CallSitesAgree ==
    \A cid \in IndexCustomers :
        \A l \in FetchLast(cid) :
            LET start == Customers[cid].start_date
            IN /\ index_next_date(start, l) = check_next_date(start, l)
               /\ view_next_date(start, l) = check_next_date(start, l)
               /\ DDay(index_next_date(start, l)[2], today) = DDay(check_next_date(start, l)[2], today)
               /\ DDay(view_next_date(start, l)[2], today) = DDay(check_next_date(start, l)[2], today)

\* C10, state part: a thread's roster is rows 1..n of Customers in order, and the
\* customers it has taken are the first of them, each once.
C10_RosterInOrder ==
    \A r \in Runs :
        /\ Len(run[r].roster) <= Len(Customers)
        /\ run[r].roster = [k \in 1..Len(run[r].roster) |-> k]
        /\ Len(run[r].evaluated) <= Len(run[r].roster)
        /\ run[r].evaluated = [k \in 1..Len(run[r].evaluated) |-> k]

\* C10, step part: a run starts with every row of Customers, active or not; when
\* the thread ends it has taken every one of them; and for a customer whose is_active
\* is 0 the send is attempted when the milestone is due and unsent.
C10_RunStep ==
    \A r \in Runs :
        /\ run[r].pc = "idle" /\ run'[r].pc # "idle"
              => run'[r].roster = [k \in 1..Len(Customers) |-> k]
        /\ run[r].pc # "idle" /\ run'[r].pc = "idle"
              => Len(run[r].evaluated) + (IF run[r].pc = "loop" THEN 1 ELSE 0)
                    = Len(run[r].roster)
        /\ EvalStep(r) /\ event'.kind = "eval"
              /\ Customers[event'.customer_id].is_active = 0
              /\ event'.d_day \in {7, 0} /\ ~BagIn(EventRow(event'), NotificationLogs)
              => event'.send # "none"

\* C10: each run evaluates every row of Customers once, whatever its active flag,
\* and a deactivated customer still gets its D-7 and D-0 notifications.
C10_EveryRowEvaluated == []C10_RosterInOrder /\ [][C10_RunStep]_vars

\* An email was sent for a customer whose is_active is 0.
C10_SentForInactive ==
    /\ event.kind = "eval"
    /\ event.send = "sent"
    /\ Customers[event.customer_id].is_active = 0

====
